---------------------------- MODULE Spec2Model ----------------------------
(***************************************************************************)
(* Model of DatabaseService (src/main/services/database.ts): a store of   *)
(* conversations and messages in two SQLite tables with an FTS5           *)
(* external-content index over the messages, driven through one           *)
(* better-sqlite3 connection.                                              *)
(*                                                                         *)
(* Text is a sequence of one-character strings.  A table is a function    *)
(* from the primary keys of its rows to the rows; every row carries its   *)
(* SQLite rowid.  The FTS5 index maps a rowid to the set of token strings *)
(* that were written for it (FTS5 keeps no uniqueness constraint on the   *)
(* rowid of an external-content table: a second INSERT for a rowid adds   *)
(* its tokens to the ones already there).                                 *)
(***************************************************************************)
EXTENDS Integers, Sequences, FiniteSets, TLC

(***************************************************************************)
(* Bounds of the model.                                                    *)
(***************************************************************************)
MaxRowid == 2
MaxMsgs == 1
MaxContent == 3

Null == "null"
NoFault == [phase |-> "none", at |-> 0]

ConvIds == {"c1", "c2"}
MsgIds == {"m1", "m2"}

\* "ab" and "b  a" (two spaces): the tokenizer has whitespace to collapse
ContentA == <<"a", "b">>
ContentB == <<"b", " ", " ", "a">>
Contents == {ContentA, ContentB}

\* "a" is a prefix of a token of both contents, "b" of ContentB only,
\* "ab" of ContentA only; " " has no token
Keywords == {<<"a">>, <<"b">>, <<"a", "b">>, <<" ">>}

(***************************************************************************)
(* Text helpers.                                                           *)
(***************************************************************************)
RECURSIVE SplitOn(_, _, _, _)
\* String.prototype.split(sep) for a one-character separator: the pieces
\* between separators, empty pieces kept
SplitOn(s, sep, cur, acc) ==
  IF s = <<>> THEN Append(acc, cur)
  ELSE IF Head(s) = sep THEN SplitOn(Tail(s), sep, <<>>, Append(acc, cur))
  ELSE SplitOn(Tail(s), sep, Append(cur, Head(s)), acc)

JsSplit(s) == SplitOn(s, " ", <<>>, <<>>)

RECURSIVE JoinWords(_)
\* Array.prototype.join(' ')
JoinWords(ws) ==
  IF ws = <<>> THEN <<>>
  ELSE IF Len(ws) = 1 THEN ws[1]
  ELSE ws[1] \o <<" ">> \o JoinWords(Tail(ws))

\* tokenizerService.tokenize: the tokens of the text, separated by single
\* spaces; text without a token gives the empty (falsy) string
Tokenize(text) == JoinWords(SelectSeq(JsSplit(text), LAMBDA w : w # <<>>))

IsPrefix(p, w) == Len(p) <= Len(w) /\ SubSeq(w, 1, Len(p)) = p

\* the tokens FTS5 (default tokenizer) stores for one written token string
FtsTokens(entry) == {w \in {JsSplit(entry)[i] : i \in 1..Len(JsSplit(entry))} : w # <<>>}

(***************************************************************************)
(* State.                                                                  *)
(***************************************************************************)
VARIABLES
  conversations,    \* conversations_v2: id -> row
  messages,         \* messages_v2: id -> row
  fts,              \* messages_fts_index: rowid -> set of token strings
  lastInsertRowid,  \* sqlite3_last_insert_rowid() of the connection
  lastOp,           \* the last call and what it returned
  indexedAs,        \* history: message id -> content at its first insertion or at the last reindex
  lastSaveLen       \* history: conversation id -> <<length of the message list of its last successful save>>, <<>> when there is none

vars == <<conversations, messages, fts, lastInsertRowid, lastOp, indexedAs, lastSaveLen>>

Rowids == 1..MaxRowid

RowidsOf(table) == {table[k].rowid : k \in DOMAIN table}

\* rowid SQLite gives a row inserted without one: one more than the largest in the table
NewRowid(table) ==
  IF DOMAIN table = {} THEN 1
  ELSE (CHOOSE r \in RowidsOf(table) : \A q \in RowidsOf(table) : q <= r) + 1

EmptyTable == [k \in {} |-> Null]

\* A request of advancedSearch is a record [keyword, filters, options].  A
\* member the request leaves out is the empty sequence (the empty string
\* for the sender), one it supplies is its value: a limit or offset n is
\* <<n>>, a date range is <<start, end>>.  A request without filters or
\* without options has every member of them left out, which is what
\* query.filters?.x and query.options?.x read.
NoFilters == [platform |-> <<>>, dateRange |-> <<>>, sender |-> ""]
NoOptions == [limit |-> <<>>, offset |-> <<>>]
NoQuery == [keyword |-> <<>>, filters |-> NoFilters, options |-> NoOptions]

\* what a call leaves for its caller to see: its kind, whether it returned
\* ("ok") or threw ("error"), its argument, and what it returned
OpRecord(kind, status) ==
  [kind |-> kind, status |-> status, arg |-> Null, query |-> NoQuery,
   partial |-> FALSE, count |-> 0, result |-> <<>>]

\* The store after the constructor has created history.db.  The FTS5 table
\* creation may leave sqlite3_last_insert_rowid() nonzero; no call reads it
\* before the conversation insert of the first save has overwritten it, so 0
\* stands for that value.
Init ==
  /\ conversations = EmptyTable
  /\ messages = EmptyTable
  /\ fts = [r \in Rowids |-> {}]
  /\ lastInsertRowid = 0
  /\ lastOp = OpRecord("init", "ok")
  /\ indexedAs = [m \in MsgIds |-> Null]
  /\ lastSaveLen = [c \in ConvIds |-> <<>>]

(***************************************************************************)
(* Inputs of the calls.                                                    *)
(***************************************************************************)
Platforms == {"chatgpt"}
Titles == {"t1"}
Senders == {"user"}
Positions == {1}
Times == {1}

MsgInputs ==
  [messageId : MsgIds, sender : Senders, content : Contents, thinking : {Null},
   position : Positions, createdAt : Times, updatedAt : Times]

SeqsUpTo(S, n) == UNION {[1..k -> S] : k \in 0..n}

ConvInputs ==
  [id : ConvIds, platform : Platforms, title : Titles, url : {"u"},
   createdAt : Times, updatedAt : Times, messages : SeqsUpTo(MsgInputs, MaxMsgs)]

\* places where a statement of saveConversation can raise: the conversation
\* upsert, and for the message at list position `at` its upsert, the
\* tokenization of its content and the index write
SaveFaults(n) ==
  {NoFault, [phase |-> "conv", at |-> 0]}
    \cup [phase : {"upsert", "tokenize", "index"}, at : 1..n]

(***************************************************************************)
(* saveConversation                                                        *)
(***************************************************************************)
\* state of the connection while the transaction function runs
TxBegin ==
  [conversations |-> conversations, messages |-> messages, fts |-> fts,
   lir |-> lastInsertRowid, indexedAs |-> indexedAs,
   steps |-> 0, failed |-> FALSE, overflow |-> FALSE]

\* the conversation upsert with message_count left out of DO UPDATE SET
UpsertConversationKeepsCount(tx, conversation, fault) ==
  IF fault.phase = "conv" THEN [tx EXCEPT !.failed = TRUE]
  ELSE IF conversation.id \notin DOMAIN tx.conversations
  THEN LET rid == NewRowid(tx.conversations)
           row == [rowid |-> rid, id |-> conversation.id,
                   platform |-> conversation.platform, title |-> conversation.title,
                   url |-> conversation.url, createdAt |-> conversation.createdAt,
                   updatedAt |-> conversation.updatedAt,
                   messageCount |-> Len(conversation.messages)]
       IN [tx EXCEPT !.conversations = (conversation.id :> row) @@ tx.conversations,
                     !.lir = rid, !.steps = @ + 1,
                     !.overflow = @ \/ rid > MaxRowid]
  ELSE [tx EXCEPT !.conversations[conversation.id] =
                     [@ EXCEPT !.title = conversation.title, !.url = conversation.url,
                               !.updatedAt = conversation.updatedAt],
                  !.steps = @ + 1]

\* INSERT INTO conversations_v2 ... ON CONFLICT(id) DO UPDATE SET title, url, updated_at, message_count
UpsertConversation(tx, conversation, fault) ==
  IF fault.phase = "conv" THEN [tx EXCEPT !.failed = TRUE]
  ELSE IF conversation.id \notin DOMAIN tx.conversations
  THEN LET rid == NewRowid(tx.conversations)
           row == [rowid |-> rid, id |-> conversation.id,
                   platform |-> conversation.platform, title |-> conversation.title,
                   url |-> conversation.url, createdAt |-> conversation.createdAt,
                   updatedAt |-> conversation.updatedAt,
                   messageCount |-> Len(conversation.messages)]
       IN [tx EXCEPT !.conversations = (conversation.id :> row) @@ tx.conversations,
                     !.lir = rid, !.steps = @ + 1,
                     !.overflow = @ \/ rid > MaxRowid]
  ELSE [tx EXCEPT !.conversations[conversation.id] =
                     [@ EXCEPT !.title = conversation.title, !.url = conversation.url,
                               !.updatedAt = conversation.updatedAt,
                               !.messageCount = Len(conversation.messages)],
                  !.steps = @ + 1]

\* the message statement as a plain INSERT, without ON CONFLICT: an
\* existing id violates the primary key
InsertMessageNoUpsert(tx, conversation, i) ==
  LET msg == conversation.messages[i]
      thinking == IF msg.thinking = Null THEN <<>> ELSE msg.thinking
  IN IF msg.messageId \notin DOMAIN tx.messages
     THEN LET rid == NewRowid(tx.messages)
              row == [rowid |-> rid, id |-> msg.messageId,
                      conversationId |-> conversation.id, sender |-> msg.sender,
                      content |-> msg.content, thinking |-> thinking,
                      position |-> msg.position, createdAt |-> msg.createdAt,
                      updatedAt |-> msg.updatedAt]
          IN [tx EXCEPT !.messages = (msg.messageId :> row) @@ tx.messages,
                        !.lir = rid, !.steps = @ + 1,
                        !.indexedAs[msg.messageId] = msg.content,
                        !.overflow = @ \/ rid > MaxRowid]
     ELSE [tx EXCEPT !.failed = TRUE]

\* the message statement with sender and conversation_id among the columns
\* of DO UPDATE SET
UpsertMessageSetsAll(tx, conversation, i) ==
  LET msg == conversation.messages[i]
      thinking == IF msg.thinking = Null THEN <<>> ELSE msg.thinking
  IN IF msg.messageId \notin DOMAIN tx.messages
     THEN LET rid == NewRowid(tx.messages)
              row == [rowid |-> rid, id |-> msg.messageId,
                      conversationId |-> conversation.id, sender |-> msg.sender,
                      content |-> msg.content, thinking |-> thinking,
                      position |-> msg.position, createdAt |-> msg.createdAt,
                      updatedAt |-> msg.updatedAt]
          IN [tx EXCEPT !.messages = (msg.messageId :> row) @@ tx.messages,
                        !.lir = rid, !.steps = @ + 1,
                        !.indexedAs[msg.messageId] = msg.content,
                        !.overflow = @ \/ rid > MaxRowid]
     ELSE [tx EXCEPT !.messages[msg.messageId] =
                        [@ EXCEPT !.content = msg.content, !.thinking = thinking,
                                  !.position = msg.position, !.updatedAt = msg.updatedAt,
                                  !.sender = msg.sender,
                                  !.conversationId = conversation.id],
                     !.steps = @ + 1]

\* insertMsg.run(...): INSERT INTO messages_v2 ... ON CONFLICT(id) DO UPDATE SET
\* content, thinking, position, updated_at.  The conflict branch changes one
\* row and inserts none, so it leaves sqlite3_last_insert_rowid() alone.
UpsertMessage(tx, conversation, i) ==
  LET msg == conversation.messages[i]
      thinking == IF msg.thinking = Null THEN <<>> ELSE msg.thinking
  IN IF msg.messageId \notin DOMAIN tx.messages
     THEN LET rid == NewRowid(tx.messages)
              row == [rowid |-> rid, id |-> msg.messageId,
                      conversationId |-> conversation.id, sender |-> msg.sender,
                      content |-> msg.content, thinking |-> thinking,
                      position |-> msg.position, createdAt |-> msg.createdAt,
                      updatedAt |-> msg.updatedAt]
          IN [tx EXCEPT !.messages = (msg.messageId :> row) @@ tx.messages,
                        !.lir = rid, !.steps = @ + 1,
                        !.indexedAs[msg.messageId] = msg.content,
                        !.overflow = @ \/ rid > MaxRowid]
     ELSE [tx EXCEPT !.messages[msg.messageId] =
                        [@ EXCEPT !.content = msg.content, !.thinking = thinking,
                                  !.position = msg.position, !.updatedAt = msg.updatedAt],
                     !.steps = @ + 1]

\* result.changes of insertMsg.run: one row changed on either branch of the upsert
UpsertChanges(before, after) == 1

\* INSERT INTO messages_fts_index (rowid, tokens) VALUES (rowid, tokens)
FtsInsert(index, rowid, tokens) ==
  IF rowid \in DOMAIN index THEN [index EXCEPT ![rowid] = @ \cup {tokens}] ELSE index

\* lines 114-121: the index write that follows the upsert of message i
IndexNewMessage(tx0, tx, conversation, i, fault) ==
  IF UpsertChanges(tx0, tx) > 0 /\ tx.lir # 0
  THEN IF fault = [phase |-> "tokenize", at |-> i] \/ fault = [phase |-> "index", at |-> i]
       THEN [tx EXCEPT !.failed = TRUE]
       ELSE [tx EXCEPT !.fts = FtsInsert(tx.fts, tx.lir, Tokenize(conversation.messages[i].content)),
                       !.steps = @ + 1]
  ELSE tx

RECURSIVE SaveMessages(_, _, _, _)
\* for (const msg of conversation.messages) { ... }
SaveMessages(tx, conversation, i, fault) ==
  IF tx.failed \/ i > Len(conversation.messages) THEN tx
  ELSE IF fault = [phase |-> "upsert", at |-> i] THEN [tx EXCEPT !.failed = TRUE]
  ELSE SaveMessages(IndexNewMessage(tx, UpsertMessage(tx, conversation, i), conversation, i, fault),
                    conversation, i + 1, fault)

\* the transaction function of a save that replaces the message list: the
\* messages of the conversation that the list leaves out are deleted first
SaveTxReplacing(start, conversation, fault) ==
  LET listed == {conversation.messages[i].messageId : i \in 1..Len(conversation.messages)}
      kept == {m \in DOMAIN start.messages :
                 start.messages[m].conversationId # conversation.id \/ m \in listed}
  IN SaveMessages(UpsertConversation([start EXCEPT !.messages = [m \in kept |-> start.messages[m]]],
                                     conversation, fault),
                  conversation, 1, fault)

\* the function passed to this.db.transaction, run on the connection state `start`
SaveTx(start, conversation, fault) ==
  SaveMessages(UpsertConversation(start, conversation, fault), conversation, 1, fault)

\* the transaction function run without a transaction: nothing is undone
CommittedNoRollback(tx, field, old) == tx[field]

\* this.db.transaction(fn)(): COMMIT when fn returns, ROLLBACK and rethrow
\* when it throws.  A rollback restores the tables and the index, not
\* sqlite3_last_insert_rowid().
Committed(tx, field, old) == IF tx.failed THEN old ELSE tx[field]

SaveConversation(conversation, fault) ==
  LET tx == SaveTx(TxBegin, conversation, fault) IN
  /\ ~tx.overflow
  /\ conversations' = Committed(tx, "conversations", conversations)
  /\ messages' = Committed(tx, "messages", messages)
  /\ fts' = Committed(tx, "fts", fts)
  /\ lastInsertRowid' = tx.lir
  /\ indexedAs' = Committed(tx, "indexedAs", indexedAs)
  /\ lastSaveLen' = IF tx.failed THEN lastSaveLen
                    ELSE [lastSaveLen EXCEPT ![conversation.id] = <<Len(conversation.messages)>>]
  /\ lastOp' = IF tx.failed
               THEN [OpRecord("save", "error") EXCEPT
                       !.arg = conversation.id, !.partial = tx.steps > 0]
               ELSE [OpRecord("save", "ok") EXCEPT !.arg = conversation.id]

(***************************************************************************)
(* getConversation                                                         *)
(***************************************************************************)
\* the message ids of the rows WHERE conversation_id = id
MessagesOf(msgs, id) == {m \in DOMAIN msgs : msgs[m].conversationId = id}

\* the rows of the conversation as SQLite returns them without ORDER BY: in
\* rowid order
ByRowid(msgs, id) ==
  {o \in [1..Cardinality(MessagesOf(msgs, id)) -> MessagesOf(msgs, id)] :
     \A i, j \in DOMAIN o : i < j => msgs[o[i]].rowid < msgs[o[j]].rowid}

\* SELECT * FROM messages_v2 WHERE conversation_id = ? ORDER BY position ASC:
\* any order of the rows that is ascending in position (SQLite does not say
\* which of two rows with the same position comes first)
ByPosition(msgs, id) ==
  {o \in [1..Cardinality(MessagesOf(msgs, id)) -> MessagesOf(msgs, id)] :
     /\ \A i, j \in DOMAIN o : i # j => o[i] # o[j]
     /\ \A i, j \in DOMAIN o : i < j => msgs[o[i]].position <= msgs[o[j]].position}

\* messages.map(msg => ({messageId: msg.id, sender: msg.sender, ...}))
MessageOf(row) ==
  [messageId |-> row.id, sender |-> row.sender, content |-> row.content,
   thinking |-> row.thinking, position |-> row.position,
   createdAt |-> row.createdAt, updatedAt |-> row.updatedAt]

\* the object getConversation returns for a conversation row and its
\* message rows in the order of the SELECT
ConversationOf(row, msgs, order) ==
  [id |-> row.id, platform |-> row.platform, title |-> row.title, url |-> row.url,
   createdAt |-> row.createdAt, updatedAt |-> row.updatedAt,
   messageCount |-> row.messageCount,
   messages |-> [i \in DOMAIN order |-> MessageOf(msgs[order[i]])]]

GetConversation(id, order) ==
  /\ order \in ByPosition(messages, id)
  /\ lastOp' = IF id \notin DOMAIN conversations
               THEN [OpRecord("get", "ok") EXCEPT !.arg = id, !.result = Null]
               ELSE [OpRecord("get", "ok") EXCEPT
                       !.arg = id,
                       !.result = ConversationOf(conversations[id], messages, order)]
  /\ UNCHANGED <<conversations, messages, fts, lastInsertRowid, indexedAs, lastSaveLen>>

(***************************************************************************)
(* deleteConversation, clearAllData                                        *)
(***************************************************************************)
\* the delete with foreign keys off: the messages stay
DeleteNoCascade(msgs, id) == msgs

\* DELETE FROM conversations_v2 WHERE id = ?, with the ON DELETE CASCADE of
\* messages_v2.conversation_id (foreign keys are on in better-sqlite3)
DeleteCascade(msgs, id) ==
  [m \in {k \in DOMAIN msgs : msgs[k].conversationId # id} |-> msgs[m]]

DeleteConversation(id) ==
  /\ conversations' = [c \in DOMAIN conversations \ {id} |-> conversations[c]]
  /\ messages' = DeleteCascade(messages, id)
  /\ indexedAs' = [m \in MsgIds |-> IF m \in DOMAIN messages' THEN indexedAs[m] ELSE Null]
  /\ lastSaveLen' = [lastSaveLen EXCEPT ![id] = <<>>]
  /\ lastOp' = [OpRecord("delete", "ok") EXCEPT !.arg = id]
  /\ UNCHANGED <<fts, lastInsertRowid>>

ClearAllData ==
  /\ messages' = EmptyTable
  /\ conversations' = EmptyTable
  /\ indexedAs' = [m \in MsgIds |-> Null]
  /\ lastSaveLen' = [c \in ConvIds |-> <<>>]
  /\ lastOp' = OpRecord("clear", "ok")
  /\ UNCHANGED <<fts, lastInsertRowid>>

(***************************************************************************)
(* reindexMessages                                                         *)
(***************************************************************************)
\* INSERT OR REPLACE INTO messages_fts_index: FTS5 honours the conflict
\* clause for tables that keep their own content only; on an
\* external-content table it is a plain INSERT
FtsInsertOrReplace(index, rowid, tokens) == FtsInsert(index, rowid, tokens)

\* SELECT rowid, content FROM messages_v2: the rows in rowid order
RECURSIVE RowsFrom(_, _)
RowsFrom(msgs, r) ==
  IF r > MaxRowid THEN <<>>
  ELSE LET here == {m \in DOMAIN msgs : msgs[m].rowid = r}
       IN (IF here = {} THEN <<>> ELSE <<msgs[CHOOSE m \in here : TRUE]>>) \o RowsFrom(msgs, r + 1)

ReindexFaults(n) == {NoFault} \cup [phase : {"tokenize", "index"}, at : 1..n]

RECURSIVE ReindexTx(_, _, _, _)
\* the function passed to this.db.transaction in reindexMessages
ReindexTx(tx, msgs, i, fault) ==
  IF i > Len(msgs) THEN tx
  ELSE IF fault.at = i THEN [tx EXCEPT !.failed = TRUE]
  ELSE ReindexTx([tx EXCEPT !.fts = FtsInsertOrReplace(tx.fts, msgs[i].rowid, Tokenize(msgs[i].content)),
                            !.lir = msgs[i].rowid, !.steps = @ + 1],
                 msgs, i + 1, fault)

ReindexMessages(fault) ==
  LET msgs == RowsFrom(messages, 1)
      tx == ReindexTx(TxBegin, msgs, 1, fault)
  IN /\ fault.at <= Len(msgs)
     /\ fts' = Committed(tx, "fts", fts)
     /\ lastInsertRowid' = tx.lir
     /\ indexedAs' = IF tx.failed THEN indexedAs
                     ELSE [m \in MsgIds |-> IF m \in DOMAIN messages THEN messages[m].content ELSE Null]
     /\ lastOp' = IF tx.failed
                  THEN [OpRecord("reindex", "error") EXCEPT
                          !.arg = fault.phase, !.partial = tx.steps > 0]
                  ELSE [OpRecord("reindex", "ok") EXCEPT !.count = Len(msgs)]
     /\ UNCHANGED <<conversations, messages, lastSaveLen>>

(***************************************************************************)
(* constructor                                                             *)
(***************************************************************************)
\* the application starts again on the same history.db: a new connection,
\* whose sqlite3_last_insert_rowid() is 0; CREATE ... IF NOT EXISTS leaves
\* the tables and the index as they are
Constructor ==
  /\ lastInsertRowid' = 0
  /\ lastOp' = OpRecord("open", "ok")
  /\ UNCHANGED <<conversations, messages, fts, indexedAs, lastSaveLen>>

(***************************************************************************)
(* advancedSearch                                                          *)
(***************************************************************************)
\* messages_fts_index MATCH '"t1"* OR "t2"* ...': a written token string
\* matches when some term is a prefix of one of its tokens
EntryMatches(terms, entry) ==
  \E i \in 1..Len(terms) :
    /\ terms[i] # <<>>
    /\ \E w \in FtsTokens(entry) : IsPrefix(terms[i], w)

\* FROM messages_fts_index fts JOIN messages_v2 m ON m.rowid = fts.rowid
\* JOIN conversations_v2 c ON m.conversation_id = c.id WHERE ... MATCH ...
MatchRows(index, msgs, convs, keyword) ==
  LET terms == JsSplit(Tokenize(keyword))
  IN {m \in DOMAIN msgs :
        /\ msgs[m].rowid \in DOMAIN index
        /\ \E e \in index[msgs[m].rowid] : EntryMatches(terms, e)
        /\ msgs[m].conversationId \in DOMAIN convs}

Quote == "'"

\* `'${p}'`: the platform value between two quote characters, as it is
SqlQuoted(p) == <<Quote>> \o p \o <<Quote>>

RECURSIVE JoinComma(_)
\* query.filters.platform.map(p => `'${p}'`).join(',')
JoinComma(platforms) ==
  IF platforms = <<>> THEN <<>>
  ELSE IF Len(platforms) = 1 THEN SqlQuoted(platforms[1])
  ELSE SqlQuoted(platforms[1]) \o <<",">> \o JoinComma(Tail(platforms))

RECURSIVE SqlLiterals(_, _, _, _)
\* How SQLite reads the text between the parentheses of c.platform IN (...)
\* when the text holds letters, quotes and commas: string literals separated
\* by commas.  A quote opens a literal, two quotes inside a literal are one
\* quote character, one quote closes it; anything else after a literal, or
\* a literal left open, is a syntax error.
SqlLiterals(s, mode, cur, acc) ==
  IF s = <<>>
  THEN IF mode = "after" THEN [ok |-> TRUE, values |-> acc \cup {cur}]
       ELSE [ok |-> FALSE, values |-> {}]
  ELSE IF mode = "start"
  THEN IF Head(s) = Quote THEN SqlLiterals(Tail(s), "in", <<>>, acc)
       ELSE [ok |-> FALSE, values |-> {}]
  ELSE IF mode = "in"
  THEN IF Head(s) # Quote THEN SqlLiterals(Tail(s), "in", Append(cur, Head(s)), acc)
       ELSE IF Len(s) >= 2 /\ s[2] = Quote
       THEN SqlLiterals(Tail(Tail(s)), "in", Append(cur, Quote), acc)
       ELSE SqlLiterals(Tail(s), "after", cur, acc)
  ELSE IF Head(s) = "," THEN SqlLiterals(Tail(s), "start", <<>>, acc \cup {cur})
  ELSE [ok |-> FALSE, values |-> {}]

\* query.filters?.platform?.length, query.filters?.dateRange,
\* query.filters?.sender: an empty list and an empty string are falsy too
HasPlatform(filters) == filters.platform # <<>>
HasDateRange(filters) == filters.dateRange # <<>>
HasSender(filters) == filters.sender # ""

\* the platforms that c.platform IN (...) accepts, as SQLite parses the
\* interpolated text
PlatformIn(filters) == SqlLiterals(JoinComma(filters.platform), "start", <<>>, {})

\* this.db.prepare(sql) rejects the statement text
SqlError(filters) == HasPlatform(filters) /\ ~PlatformIn(filters).ok

\* the AND ... parts that lines 229-244 append to the WHERE clause
Where(msgs, convs, filters, m) ==
  /\ HasPlatform(filters) => convs[msgs[m].conversationId].platform \in PlatformIn(filters).values
  /\ HasDateRange(filters) =>
       /\ filters.dateRange[1] <= msgs[m].createdAt
       /\ msgs[m].createdAt <= filters.dateRange[2]
  /\ HasSender(filters) => msgs[m].sender = filters.sender

\* the rows the statement of advancedSearch selects, before ORDER BY and LIMIT
SearchRows(index, msgs, convs, query) ==
  {m \in MatchRows(index, msgs, convs, query.keyword) : Where(msgs, convs, query.filters, m)}

\* ORDER BY m.created_at DESC: any order of the rows that is descending in created_at
Orderings(msgs, rows) ==
  {o \in [1..Cardinality(rows) -> rows] :
     /\ \A i, j \in DOMAIN o : i # j => o[i] # o[j]
     /\ \A i, j \in DOMAIN o : i < j => msgs[o[i]].createdAt >= msgs[o[j]].createdAt}

DefaultLimit == 20

\* LIMIT @limit OFFSET @offset with query.options?.limit || 20, query.options?.offset || 0
Page(order, options) ==
  LET limit == IF options.limit = <<>> \/ options.limit[1] = 0 THEN DefaultLimit
               ELSE options.limit[1]
      offset == IF options.offset = <<>> THEN 0 ELSE options.offset[1]
      last == IF offset + limit > Len(order) THEN Len(order) ELSE offset + limit
  IN SubSeq(order, offset + 1, last)

SearchFaults == {"none", "tokenize", "build", "execute", "snippet"}

\* the steps of advancedSearch that the try block (lines 252-271) covers
CaughtBySearch(fault) == fault \in {"execute", "snippet"}

AdvancedSearch(query, fault, order) ==
  LET tokens == Tokenize(query.keyword)
      rejected == SqlError(query.filters)
      rows == IF rejected THEN <<>> ELSE Page(order, query.options)
      raised == \/ fault = "tokenize"
                \/ tokens # <<>> /\ fault \in {"build", "execute"}
                \/ tokens # <<>> /\ fault = "snippet" /\ rows # <<>>
  IN /\ order \in Orderings(messages, SearchRows(fts, messages, conversations, query))
     /\ lastOp' = IF raised /\ ~CaughtBySearch(fault)
                  THEN [OpRecord("search", "error") EXCEPT !.arg = fault, !.query = query]
                  ELSE [OpRecord("search", "ok") EXCEPT
                          !.arg = fault,
                          !.query = query,
                          !.partial = raised \/ (tokens # <<>> /\ rejected),
                          !.result = IF tokens = <<>> \/ raised THEN <<>> ELSE rows]
     /\ UNCHANGED <<conversations, messages, fts, lastInsertRowid, indexedAs, lastSaveLen>>

Queries == [keyword : Keywords, filters : {NoFilters}, options : {NoOptions}]

(***************************************************************************)
(* generateSnippet                                                         *)
(***************************************************************************)
Ellipsis == <<".", ".", ".">>

\* '<b class="text-yellow-500 font-bold bg-yellow-100 dark:bg-yellow-900/30
\* px-1 rounded">' and '</b>', the text put around $1
HighlightOpen ==
  <<"<", "b", " ", "c", "l", "a", "s", "s", "=", "\"", "t", "e", "x", "t",
    "-", "y", "e", "l", "l", "o", "w", "-", "5", "0", "0", " ", "f", "o",
    "n", "t", "-", "b", "o", "l", "d", " ", "b", "g", "-", "y", "e", "l",
    "l", "o", "w", "-", "1", "0", "0", " ", "d", "a", "r", "k", ":", "b",
    "g", "-", "y", "e", "l", "l", "o", "w", "-", "9", "0", "0", "/", "3",
    "0", " ", "p", "x", "-", "1", " ", "r", "o", "u", "n", "d", "e", "d",
    "\"", ">">>

HighlightClose == <<"<", "/", "b", ">">>

\* distance to a space within which a bound of the snippet moves to it
SnapTolerance == 20

\* maxLength of the snippets of advancedSearch
SnippetLength == 60

\* String.prototype.toLowerCase, on the letters the model uses
LowerOf(c) == IF c = "A" THEN "a" ELSE IF c = "B" THEN "b" ELSE c

ToLowerCase(s) == [i \in 1..Len(s) |-> LowerOf(s[i])]

Min(a, b) == IF a < b THEN a ELSE b
Max(a, b) == IF a > b THEN a ELSE b

\* String.prototype.substring(a, b): indices are counted from 0, clamped to
\* the string and swapped when a > b
Substring(s, a, b) ==
  LET x == Min(Max(a, 0), Len(s))
      y == Min(Max(b, 0), Len(s))
  IN SubSeq(s, Min(x, y) + 1, Max(x, y))

\* String.prototype.indexOf(pat, from): the first index (from 0) at or after
\* `from` where pat starts, -1 when there is none
IndexOf(s, pat, from) ==
  LET at == {i \in from..(Len(s) - Len(pat)) : SubSeq(s, i + 1, i + Len(pat)) = pat}
  IN IF at = {} THEN -1 ELSE CHOOSE i \in at : \A j \in at : i <= j

\* String.prototype.lastIndexOf(c, from) for one character: the last index
\* at or before `from` that holds c, -1 when there is none
LastIndexOf(s, c, from) ==
  LET at == {i \in 0..Min(from, Len(s) - 1) : s[i + 1] = c}
  IN IF at = {} THEN -1 ELSE CHOOSE i \in at : \A j \in at : j <= i

RECURSIVE FirstOccurrence(_, _, _, _)
\* lines 284-290: the keyword that occurs first in the content, and where
FirstOccurrence(lowerContent, keywords, k, best) ==
  IF k > Len(keywords) THEN best
  ELSE LET index == IndexOf(lowerContent, ToLowerCase(keywords[k]), 0)
       IN FirstOccurrence(lowerContent, keywords, k + 1,
            IF index # -1 /\ (best.firstIndex = -1 \/ index < best.firstIndex)
            THEN [firstIndex |-> index, matchedKeyword |-> keywords[k]]
            ELSE best)

\* the replacement for the empty keyword, which the expression finds
\* before every character and at the end: the two tags at each of these places
HighlightEmpty(s) ==
  LET tags == HighlightOpen \o HighlightClose
      block == Len(tags) + 1
  IN [i \in 1..((Len(s) + 1) * Len(tags) + Len(s)) |->
        IF ((i - 1) % block) < Len(tags) THEN tags[((i - 1) % block) + 1]
        ELSE s[((i - 1) \div block) + 1]]

RECURSIVE Highlight(_, _)
\* snippet.replace(new RegExp(`(${keyword})`, 'gi'), '<b ...>$1</b>') for a
\* keyword of letters: every occurrence, found from the left and not
\* overlapping the one before, letters compared without regard to case, is
\* put between the two tags
Highlight(s, keyword) ==
  IF keyword = <<>> THEN HighlightEmpty(s)
  ELSE LET index == IndexOf(ToLowerCase(s), ToLowerCase(keyword), 0)
       IN IF index = -1 THEN s
          ELSE SubSeq(s, 1, index)
                 \o HighlightOpen \o SubSeq(s, index + 1, index + Len(keyword)) \o HighlightClose
                 \o Highlight(SubSeq(s, index + Len(keyword) + 1, Len(s)), keyword)

RECURSIVE HighlightAll(_, _, _)
\* for (const keyword of keywords) { snippet = snippet.replace(...) }
HighlightAll(snippet, keywords, k) ==
  IF k > Len(keywords) THEN snippet
  ELSE HighlightAll(Highlight(snippet, keywords[k]), keywords, k + 1)

\* line 295 with the ellipsis left out
NoMatchSnippetCut(content, maxLength) == Substring(content, 0, maxLength)

\* line 295: content.substring(0, maxLength) + (content.length > maxLength ? '...' : '')
NoMatchSnippet(content, maxLength) ==
  Substring(content, 0, maxLength) \o (IF Len(content) > maxLength THEN Ellipsis ELSE <<>>)

GenerateSnippet(content, keywords, maxLength) ==
  IF content = <<>> THEN <<>>
  ELSE
    LET first == FirstOccurrence(ToLowerCase(content), keywords, 1,
                                 [firstIndex |-> -1, matchedKeyword |-> <<>>])
        halfLength == maxLength \div 2
        start0 == Max(0, first.firstIndex - halfLength)
        end0 == Min(Len(content), first.firstIndex + Len(first.matchedKeyword) + halfLength)
        spaceBefore == LastIndexOf(content, " ", start0)
        start == IF start0 > 0 /\ spaceBefore > 0 /\ start0 - spaceBefore < SnapTolerance
                 THEN spaceBefore + 1 ELSE start0
        spaceAfter == IndexOf(content, <<" ">>, end0)
        end == IF end0 < Len(content) /\ spaceAfter > 0 /\ spaceAfter - end0 < SnapTolerance
               THEN spaceAfter ELSE end0
    IN IF first.firstIndex = -1 THEN NoMatchSnippet(content, maxLength)
       ELSE (IF start > 0 THEN Ellipsis ELSE <<>>)
              \o HighlightAll(Substring(content, start, end), keywords, 1)
              \o (IF end < Len(content) THEN Ellipsis ELSE <<>>)

\* line 264: the snippet of a row of the search result
SnippetOf(content, keyword) ==
  GenerateSnippet(content, JsSplit(Tokenize(keyword)), SnippetLength)

\* a call of generateSnippet on the input the state holds
GenerateSnippetCall ==
  /\ lastOp.kind = "input"
  /\ lastOp' = [OpRecord("snippet", "ok") EXCEPT
                  !.arg = lastOp.arg,
                  !.result = GenerateSnippet(lastOp.arg.content, lastOp.arg.keywords,
                                             lastOp.arg.maxLength)]
  /\ UNCHANGED <<conversations, messages, fts, lastInsertRowid, indexedAs, lastSaveLen>>

(***************************************************************************)
(* Specifications.  Spec: one conversation, messages of both contents.     *)
(* SpecTwo: two conversations, messages of one content.  SpecSearch: the   *)
(* writes of Spec without faults, and searches.                            *)
(***************************************************************************)
ConvInputsOver(ids, contents) == {c \in ConvInputs : c.id \in ids /\ \A i \in 1..Len(c.messages) : c.messages[i].content \in contents}

Save(inputs) ==
  \E conversation \in inputs, fault \in SaveFaults(MaxMsgs) :
    /\ fault.at <= Len(conversation.messages)
    /\ SaveConversation(conversation, fault)

Reindex == \E fault \in ReindexFaults(MaxRowid) : ReindexMessages(fault)

Next ==
  \/ Save(ConvInputsOver({"c1"}, Contents))
  \/ DeleteConversation("c1")
  \/ ClearAllData
  \/ Reindex
  \/ Constructor

Spec == Init /\ [][Next]_vars

NextTwo ==
  \/ Save(ConvInputsOver(ConvIds, {ContentA}))
  \/ \E id \in ConvIds : DeleteConversation(id)
  \/ ClearAllData
  \/ Reindex
  \/ Constructor

SpecTwo == Init /\ [][NextTwo]_vars

NextSearch ==
  \/ \E conversation \in ConvInputsOver({"c1"}, Contents) : SaveConversation(conversation, NoFault)
  \/ DeleteConversation("c1")
  \/ ReindexMessages(NoFault)
  \/ Constructor
  \/ \E query \in Queries, fault \in SearchFaults :
       \E order \in Orderings(messages, SearchRows(fts, messages, conversations, query)) :
         AdvancedSearch(query, fault, order)

SpecSearch == Init /\ [][NextSearch]_vars

(***************************************************************************)
(* SpecFilter: two conversations on two platforms, one message each with   *)
(* either sender and either creation time, and searches with filters and   *)
(* with paging options.                                                    *)
(***************************************************************************)
\* platform names as text: g, o'x and o''x
PlatformG == <<"g">>
PlatformQ == <<"o", Quote, "x">>
PlatformQQ == <<"o", Quote, Quote, "x">>

FilterSenders == {"user", "assistant"}
FilterTimes == {1, 2}

FilterMsgInputs ==
  [messageId : MsgIds, sender : FilterSenders, content : {ContentA}, thinking : {Null},
   position : Positions, createdAt : FilterTimes, updatedAt : Times]

\* conversation c1 is on platform g and holds m1, c2 is on platform o'x and holds m2
FilterConvInputs ==
  {c \in [id : ConvIds, platform : {PlatformG, PlatformQ}, title : Titles, url : {"u"},
          createdAt : Times, updatedAt : Times,
          messages : SeqsUpTo(FilterMsgInputs, MaxMsgs)] :
     /\ c.messages # <<>>
     /\ c.platform = (IF c.id = "c1" THEN PlatformG ELSE PlatformQ)
     /\ \A i \in 1..Len(c.messages) :
          c.messages[i].messageId = (IF c.id = "c1" THEN "m1" ELSE "m2")}

FilterQueries ==
  [keyword : {<<"a">>, <<"b">>},
   filters : [platform : {<<>>, <<PlatformG>>, <<PlatformQ>>, <<PlatformQQ>>},
              dateRange : {<<>>, <<1, 1>>, <<1, 2>>},
              sender : {"", "user"}],
   options : {NoOptions}]

PageQueries ==
  [keyword : {<<"a">>},
   filters : {NoFilters},
   options : [limit : {<<>>, <<0>>, <<1>>}, offset : {<<>>, <<1>>}]]

Search(queries) ==
  \E query \in queries :
    \E order \in Orderings(messages, SearchRows(fts, messages, conversations, query)) :
      AdvancedSearch(query, "none", order)

NextFilter ==
  \/ \E conversation \in FilterConvInputs : SaveConversation(conversation, NoFault)
  \/ ClearAllData
  \/ Search(FilterQueries \cup PageQueries)

SpecFilter == Init /\ [][NextFilter]_vars

(***************************************************************************)
(* SpecGet: two conversations, messages at two positions, and              *)
(* getConversation.                                                        *)
(***************************************************************************)
GetPositions == {1, 2}

GetMsgInputs ==
  [messageId : MsgIds, sender : Senders, content : {ContentA}, thinking : {Null},
   position : GetPositions, createdAt : Times, updatedAt : Times]

GetConvInputs ==
  [id : ConvIds, platform : Platforms, title : Titles, url : {"u"},
   createdAt : Times, updatedAt : Times, messages : SeqsUpTo(GetMsgInputs, MaxMsgs)]

NextGet ==
  \/ \E conversation \in GetConvInputs : SaveConversation(conversation, NoFault)
  \/ \E id \in ConvIds : DeleteConversation(id)
  \/ \E id \in ConvIds : \E order \in ByPosition(messages, id) : GetConversation(id, order)

SpecGet == Init /\ [][NextGet]_vars

(***************************************************************************)
(* SpecFrame: saves of two conversations and one message that differ in    *)
(* the fields written at creation only (platform, sender, createdAt).      *)
(***************************************************************************)
FramePlatforms == {"chatgpt", "claude"}
FrameSenders == {"user", "assistant"}
FrameTimes == {1, 2}

FrameMsgInputs ==
  [messageId : {"m1"}, sender : FrameSenders, content : {ContentA}, thinking : {Null},
   position : Positions, createdAt : FrameTimes, updatedAt : Times]

FrameConvInputs ==
  [id : ConvIds, platform : FramePlatforms, title : Titles, url : {"u"},
   createdAt : FrameTimes, updatedAt : Times, messages : SeqsUpTo(FrameMsgInputs, MaxMsgs)]

NextFrame ==
  \/ \E conversation \in FrameConvInputs : SaveConversation(conversation, NoFault)
  \/ ClearAllData

SpecFrame == Init /\ [][NextFrame]_vars

(***************************************************************************)
(* SpecSnippet: generateSnippet on every content of at most MaxContent     *)
(* characters, every list of at most two keywords and every maxLength up   *)
(* to MaxContent.                                                          *)
(***************************************************************************)
SnippetChars == {"a", "A", "b", " "}
SnippetContents == SeqsUpTo(SnippetChars, MaxContent)
SnippetKeywords == SeqsUpTo({<<"a">>, <<"B">>, <<"a", "b">>}, 2)

SnippetInputs ==
  [content : SnippetContents, keywords : SnippetKeywords, maxLength : 0..MaxContent]

InitSnippet ==
  /\ conversations = EmptyTable
  /\ messages = EmptyTable
  /\ fts = [r \in Rowids |-> {}]
  /\ lastInsertRowid = 0
  /\ indexedAs = [m \in MsgIds |-> Null]
  /\ lastSaveLen = [c \in ConvIds |-> <<>>]
  /\ \E input \in SnippetInputs : lastOp = [OpRecord("input", "ok") EXCEPT !.arg = input]

NextSnippet == GenerateSnippetCall

SpecSnippet == InitSnippet /\ [][NextSnippet]_vars

(***************************************************************************)
(* Properties.                                                             *)
(***************************************************************************)
TypeOK ==
  /\ DOMAIN conversations \subseteq ConvIds
  /\ DOMAIN messages \subseteq MsgIds
  /\ \A m \in DOMAIN messages : messages[m].rowid \in Rowids
  /\ \A m, n \in DOMAIN messages : m # n => messages[m].rowid # messages[n].rowid
  /\ \A m \in DOMAIN messages : messages[m].conversationId \in DOMAIN conversations
  /\ lastInsertRowid \in 0..MaxRowid

\* the keyword, tokenized as advancedSearch tokenizes it, matches the tokens of the content
KeywordMatches(keyword, content) ==
  EntryMatches(JsSplit(Tokenize(keyword)), Tokenize(content))

\* what advancedSearch(keyword) finds in the current store, before paging
Found(keyword) == MatchRows(fts, messages, conversations, keyword)

MessageRowids == {messages[m].rowid : m \in DOMAIN messages}

\* C1: a saveConversation that fails leaves the conversation rows, the
\* message rows and the index entries exactly as they were before the call,
\* and its caller gets the error, never status 'ok'.
SaveAllOrNothing ==
  [][lastOp'.kind = "save" /\ lastOp'.status = "error"
       => conversations' = conversations /\ messages' = messages /\ fts' = fts]_vars

\* C1 witness: a save failed after statements of its transaction had run,
\* and the store shows none of them
SaveFailedAfterWrites ==
  /\ lastOp.kind = "save"
  /\ lastOp.status = "error"
  /\ lastOp.partial
  /\ DOMAIN conversations = {}
  /\ lastInsertRowid # 0

\* C2: in a saveConversation the index is written for a message if and only
\* if the upsert of that message created a new row.
IndexWriteIffNewRow ==
  [][lastOp'.kind = "save" /\ lastOp'.status = "ok"
       => /\ \A r \in Rowids :
               fts'[r] # fts[r] =>
                 \E m \in DOMAIN messages' \ DOMAIN messages : messages'[m].rowid = r
          /\ \A m \in DOMAIN messages' \ DOMAIN messages :
               Tokenize(indexedAs'[m]) \in fts'[messages'[m].rowid]]_vars

\* C3: every message row identity has at most one index entry, and outside
\* reindexMessages the entry of a message is written once, at its first
\* insertion.
IndexEntryOnce ==
  /\ [](\A m \in DOMAIN messages : Cardinality(fts[messages[m].rowid]) <= 1)
  /\ [][lastOp'.kind # "reindex"
          => \A m \in DOMAIN messages \cap DOMAIN messages' :
               messages'[m].rowid = messages[m].rowid
                 => fts'[messages[m].rowid] = fts[messages[m].rowid]]_vars

\* C4: after deleteConversation or clearAllData no index entry is left
\* whose row identity is not that of an existing message row.
NoOrphanEntryAfterDelete ==
  [][lastOp'.kind \in {"delete", "clear"}
       => \A r \in Rowids : fts'[r] # {} => \E m \in DOMAIN messages' : messages'[m].rowid = r]_vars

\* C5: deleteConversation(id) removes the conversation row id and every
\* message row of that conversation, leaves every other conversation and
\* message as it was, and no search finds a deleted message afterwards.
DeleteRemovesExactly ==
  [][lastOp'.kind = "delete"
       => LET id == lastOp'.arg
              gone == {m \in DOMAIN messages : messages[m].conversationId = id}
          IN /\ DOMAIN conversations' = DOMAIN conversations \ {id}
             /\ DOMAIN messages' = DOMAIN messages \ gone
             /\ \A c \in DOMAIN conversations' : conversations'[c] = conversations[c]
             /\ \A m \in DOMAIN messages' : messages'[m] = messages[m]
             /\ \A k \in Keywords : MatchRows(fts', messages', conversations', k) \cap gone = {}]_vars

\* C5 witness: a conversation was deleted whose message had been indexed,
\* and a message of another conversation is still there
DeletedOneOfTwo ==
  /\ lastOp.kind = "delete"
  /\ lastOp.arg \notin DOMAIN conversations
  /\ DOMAIN messages # {}
  /\ \E r \in Rowids \ MessageRowids : fts[r] # {}
  /\ \E k \in Keywords : Found(k) # {}

\* C6: a message inserted with content A and saved again with content B is
\* found for the keywords that match A and not for those that match only B
\* until reindexMessages runs; after reindexMessages it is found for the
\* keywords that match B.
StaleUntilReindex ==
  /\ \A m \in DOMAIN messages : \A k \in Keywords :
       /\ KeywordMatches(k, indexedAs[m]) => m \in Found(k)
       /\ (/\ messages[m].content # indexedAs[m]
           /\ KeywordMatches(k, messages[m].content)
           /\ ~KeywordMatches(k, indexedAs[m])) => m \notin Found(k)
  /\ lastOp.kind = "reindex" /\ lastOp.status = "ok"
       => \A m \in DOMAIN messages : \A k \in Keywords :
            KeywordMatches(k, messages[m].content) => m \in Found(k)

\* C7: saving the same conversation twice in a row leaves the rows the
\* first save left: one conversation row, one row per message id, the same
\* field values.
UpsertIdempotent ==
  \A c \in ConvInputsOver({"c1"}, Contents) :
    LET once == SaveTx(TxBegin, c, NoFault)
        twice == SaveTx(once, c, NoFault)
    IN ~once.overflow =>
         /\ ~twice.failed
         /\ twice.conversations = once.conversations
         /\ twice.messages = once.messages
         /\ c.id \in DOMAIN once.conversations
         /\ DOMAIN once.messages =
              DOMAIN messages \cup {c.messages[i].messageId : i \in 1..Len(c.messages)}

\* C7 witness: a save has just succeeded on a store that already held the
\* conversation, and the store holds two messages that a second save of a
\* two-message list updates
SavedOverExisting ==
  /\ lastOp.kind = "save"
  /\ lastOp.status = "ok"
  /\ Cardinality(DOMAIN messages) = 2
  /\ \E m \in DOMAIN messages : messages[m].content # indexedAs[m]

\* C8: reindexMessages with N message rows leaves exactly N index entries,
\* one per message holding the tokens of its current content, and returns N.
ReindexComplete ==
  lastOp.kind = "reindex" /\ lastOp.status = "ok"
    => /\ lastOp.count = Cardinality(DOMAIN messages)
       /\ \A m \in DOMAIN messages : fts[messages[m].rowid] = {Tokenize(messages[m].content)}
       /\ \A r \in Rowids \ MessageRowids : fts[r] = {}

\* C9: the stored messageCount of a conversation is the length of the
\* message list of the last successful saveConversation for its id.
MessageCountIsLastSaveLen ==
  \A c \in DOMAIN conversations : <<conversations[c].messageCount>> = lastSaveLen[c]

\* C9 witness: after a failed save, a conversation whose messageCount is not
\* the number of its message rows
CountNotLive ==
  /\ lastOp.kind = "save"
  /\ lastOp.status = "error"
  /\ lastOp.partial
  /\ \E c \in DOMAIN conversations :
       conversations[c].messageCount #
         Cardinality({m \in DOMAIN messages : messages[m].conversationId = c})
  /\ \E c \in DOMAIN conversations : conversations[c].messageCount = MaxMsgs

\* C10: a failure while advancedSearch runs never reaches the caller: the
\* call returns an empty list.
SearchNeverThrows ==
  lastOp.kind = "search" => lastOp.status = "ok"

\* the rows of a search result, as a set
Returned == {lastOp.result[i] : i \in 1..Len(lastOp.result)}

\* the values of a list, as a set
Members(list) == {list[i] : i \in 1..Len(list)}

\* C11: every row advancedSearch returns matches the keyword and satisfies
\* every filter the request holds: the platform of its conversation is a
\* member of filters.platform, its sender is filters.sender, its createdAt
\* lies between the bounds of filters.dateRange, bounds included.
ResultSatisfiesFilters ==
  lastOp.kind = "search" /\ lastOp.status = "ok"
    => \A m \in Returned :
         LET filters == lastOp.query.filters IN
         /\ m \in Found(lastOp.query.keyword)
         /\ HasPlatform(filters)
              => conversations[messages[m].conversationId].platform \in Members(filters.platform)
         /\ HasSender(filters) => messages[m].sender = filters.sender
         /\ HasDateRange(filters)
              => /\ filters.dateRange[1] <= messages[m].createdAt
                 /\ messages[m].createdAt <= filters.dateRange[2]

\* getConversation has just returned a conversation
Got == lastOp.kind = "get" /\ lastOp.arg \in DOMAIN conversations

\* C12, as the claim states it: the messages getConversation returns are in
\* strictly ascending order of position.
GetStrictlyAscending ==
  Got => \A i, j \in DOMAIN lastOp.result.messages :
           i < j => lastOp.result.messages[i].position < lastOp.result.messages[j].position

\* C12, amended: the messages getConversation returns are the messages of
\* the conversation in ascending order of position, whatever the order in
\* which they were inserted and updated; the order is strict when no two of
\* them have the same position.
GetAscending ==
  Got => LET list == lastOp.result.messages IN
         /\ {list[i].messageId : i \in DOMAIN list} = MessagesOf(messages, lastOp.arg)
         /\ Len(list) = Cardinality(MessagesOf(messages, lastOp.arg))
         /\ \A i, j \in DOMAIN list : i < j => list[i].position <= list[j].position

\* C12 witness: getConversation returned two messages, the one inserted
\* later first
GotReordered ==
  /\ Got
  /\ Len(lastOp.result.messages) = 2
  /\ lastOp.result.messages[1].position < lastOp.result.messages[2].position
  /\ messages[lastOp.result.messages[1].messageId].rowid
       > messages[lastOp.result.messages[2].messageId].rowid

\* the keyword occurs in the content, letters compared without regard to case
Occurs(keyword, content) ==
  \E i \in 0..(Len(content) - Len(keyword)) :
    ToLowerCase(SubSeq(content, i + 1, i + Len(keyword))) = ToLowerCase(keyword)

\* generateSnippet has returned for a content in which no keyword of the list occurs
SnippetWithoutMatch ==
  /\ lastOp.kind = "snippet"
  /\ \A k \in 1..Len(lastOp.arg.keywords) : ~Occurs(lastOp.arg.keywords[k], lastOp.arg.content)

\* C13: when no keyword of the list occurs in the content, generateSnippet
\* returns the first maxLength characters of the content followed by an
\* ellipsis if the content is longer than maxLength, and the content
\* unchanged if it is not.
NoMatchSnippetIsPrefix ==
  SnippetWithoutMatch
    => LET content == lastOp.arg.content
           maxLength == lastOp.arg.maxLength
       IN IF Len(content) > maxLength
          THEN lastOp.result = SubSeq(content, 1, maxLength) \o <<".", ".", ".">>
          ELSE lastOp.result = content

\* C13 witness: a content longer than maxLength, keywords none of which
\* occurs in it, and a snippet that ends in the ellipsis
CutWithoutMatch ==
  /\ SnippetWithoutMatch
  /\ lastOp.arg.keywords # <<>>
  /\ lastOp.arg.maxLength > 0
  /\ Len(lastOp.arg.content) > lastOp.arg.maxLength
  /\ Len(lastOp.result) = lastOp.arg.maxLength + 3

\* C14: a reindexMessages in which the tokenization of one message fails
\* reports success, having skipped that message and written the index
\* entries of all the others.
ReindexSkipsFailedRow ==
  lastOp.kind = "reindex" /\ lastOp.arg = "tokenize"
    => /\ lastOp.status = "ok"
       /\ \E skipped \in DOMAIN messages :
            \A m \in DOMAIN messages \ {skipped} :
              Tokenize(messages[m].content) \in fts[messages[m].rowid]

\* C15: with a platform filter, whatever characters its values hold,
\* advancedSearch returns exactly the rows of the same request without the
\* platform filter whose conversation platform is one of the given values.
PlatformFilterExact ==
  lastOp.kind = "search" /\ lastOp.status = "ok" /\ HasPlatform(lastOp.query.filters)
    => LET without == [lastOp.query EXCEPT !.filters.platform = <<>>]
       IN Returned =
            {m \in SearchRows(fts, messages, conversations, without) :
               conversations[messages[m].conversationId].platform
                 \in Members(lastOp.query.filters.platform)}

\* C16: advancedSearch returns the rows offset+1 .. offset+limit of the
\* rows its statement selects, in descending order of createdAt, where
\* limit is 20 and offset is 0 only when the request leaves them out; it
\* never returns more rows than a limit the request supplies.
PageAsRequested ==
  lastOp.kind = "search" /\ lastOp.status = "ok" /\ ~lastOp.partial
    => LET options == lastOp.query.options
           limit == IF options.limit = <<>> THEN 20 ELSE options.limit[1]
           offset == IF options.offset = <<>> THEN 0 ELSE options.offset[1]
       IN /\ \E order \in Orderings(messages,
                                    SearchRows(fts, messages, conversations, lastOp.query)) :
               lastOp.result = SubSeq(order, offset + 1, Min(offset + limit, Len(order)))
          /\ options.limit # <<>> => Len(lastOp.result) <= options.limit[1]

\* conversation c1 with a list of two messages of different ids
TwoMessageInputs ==
  {c \in [id : {"c1"}, platform : Platforms, title : Titles, url : {"u"},
          createdAt : Times, updatedAt : Times, messages : [1..2 -> MsgInputs]] :
     c.messages[1].messageId # c.messages[2].messageId}

\* the same conversation with its two messages in the other order
Swapped(c) == [c EXCEPT !.messages = <<c.messages[2], c.messages[1]>>]

\* a table without the rowids, which no call returns
Fields(table) ==
  [k \in DOMAIN table |-> [f \in DOMAIN table[k] \ {"rowid"} |-> table[k][f]]]

\* C17: saving a conversation from a given state leaves the same
\* conversation rows, the same message rows and the same search results
\* whichever way round its messages are listed.
SaveOrderIndependent ==
  \A c \in TwoMessageInputs :
    LET one == SaveTx(TxBegin, c, NoFault)
        other == SaveTx(TxBegin, Swapped(c), NoFault)
    IN ~one.overflow /\ ~other.overflow
         => /\ Fields(one.conversations) = Fields(other.conversations)
            /\ Fields(one.messages) = Fields(other.messages)
            /\ \A k \in Keywords :
                 MatchRows(one.fts, one.messages, one.conversations, k)
                   = MatchRows(other.fts, other.messages, other.conversations, k)

\* the columns a save may change in a row that exists
ConversationUpdated == {"title", "url", "updatedAt", "messageCount"}
MessageUpdated == {"content", "thinking", "position", "updatedAt"}

\* C18: a saveConversation keeps every row that exists and changes in it
\* nothing but title, url, updatedAt and messageCount of a conversation and
\* content, thinking, position and updatedAt of a message: platform and
\* createdAt of the conversation, sender, conversationId and createdAt of
\* the message stay as stored, also when the message is saved under another
\* conversation.
SaveKeepsCreationFields ==
  [][lastOp'.kind = "save" /\ lastOp'.status = "ok"
       => /\ \A c \in DOMAIN conversations :
               /\ c \in DOMAIN conversations'
               /\ \A f \in DOMAIN conversations[c] \ ConversationUpdated :
                    conversations'[c][f] = conversations[c][f]
          /\ \A m \in DOMAIN messages :
               /\ m \in DOMAIN messages'
               /\ \A f \in DOMAIN messages[m] \ MessageUpdated :
                    messages'[m][f] = messages[m][f]]_vars

\* C18 witness: the message was inserted under c1 and has since been saved
\* in the list of c2, whose platform and creation time differ from those of
\* c1; it still belongs to c1
SavedUnderOtherConversation ==
  /\ lastOp.kind = "save"
  /\ lastOp.status = "ok"
  /\ "m1" \in DOMAIN messages
  /\ messages["m1"].conversationId = "c1"
  /\ lastSaveLen["c2"] = <<1>>
  /\ conversations["c1"].platform # conversations["c2"].platform
  /\ conversations["c1"].createdAt # conversations["c2"].createdAt

\* C19: a message advancedSearch returns for a keyword, without filters,
\* has a token of the keyword as the prefix of a token of the content it
\* had when it was first inserted or when reindexMessages last ran; the
\* tokens written for a deleted message whose rowid it reuses never make
\* it a result.
SearchSound ==
  lastOp.kind = "search" /\ lastOp.status = "ok"
    => \A m \in Returned : KeywordMatches(lastOp.query.keyword, indexedAs[m])

\* C20: a saveConversation removes no message row and moves none to another
\* conversation, and a row it inserts belongs to the conversation saved; so
\* getConversation returns every message first saved under the id since the
\* last delete or clear, whether or not the latest save listed it.
SaveNeverRemoves ==
  /\ [](Got => {lastOp.result.messages[i].messageId : i \in DOMAIN lastOp.result.messages}
                 = MessagesOf(messages, lastOp.arg))
  /\ [][lastOp'.kind = "save"
          => /\ \A m \in DOMAIN messages :
                  /\ m \in DOMAIN messages'
                  /\ messages'[m].conversationId = messages[m].conversationId
             /\ \A m \in DOMAIN messages' \ DOMAIN messages :
                  messages'[m].conversationId = lastOp'.arg]_vars

\* C20 witness: getConversation returned more messages than the
\* messageCount it returned, one of them absent from the latest save
GotMoreThanCount ==
  /\ Got
  /\ lastOp.result.messageCount = 1
  /\ Len(lastOp.result.messages) = 2
  /\ lastSaveLen[lastOp.arg] = <<1>>

=============================================================================
